---- MODULE Spec2Model ----
(***************************************************************************)
(* Model of the hybrid panel search pipeline (search.py, db_search.py,     *)
(* sonnet_api.py): attribute filters of the lexical branch, the vector     *)
(* task and the join of the two tasks, the domain filters, Reciprocal Rank *)
(* Fusion, the slate, the reranker call with its retry decorator, the      *)
(* backfill, the final fetch of the panels, the response and the saving of *)
(* the log; of bm25_search up to its top_k cut; and of build_index.py,     *)
(* which pages through the table, builds the BM25 index and writes the     *)
(* snapshot file bm25_index.pkl.                                           *)
(*                                                                         *)
(* Panel ids are strings in the code; they are modelled as the integers    *)
(* 1..n, whose order stands for the lexicographic order of the id strings. *)
(* RRF scores are floats in the code; they are modelled as exact rationals *)
(* num/den and compared by cross multiplication.                           *)
(***************************************************************************)
EXTENDS Integers, Sequences, FiniteSets, TLC

VARIABLES
    pc,                 \* position of the query in search_pipeline
    scored,             \* bm25_search: `results` before any filter (line 371)
    filter_in,          \* argument `ids` of the last attribute filter call
    filter_name,        \* name of the last attribute filter called, or "none"
    filter_outcome,     \* how the store behaved in that call
    store_failed,       \* TRUE once a store call of a filter has failed
    birth_years,        \* birth_years.split(), or None
    regions,            \* regions, or None
    genders,            \* genders, or None
    domain_filters,     \* domain_filters of search_pipeline
    bm25_results_ids,   \* the lexical list (results / bm25_results_ids)
    vector_results_ids, \* the vector list
    k,                  \* item.k
    rrf_sorted,         \* fused candidates [id, num, den], sorted
    result_count,       \* result_count returned by preprocess_query
    item_count,         \* item.count
    top_panels,         \* the slate
    attempts,           \* attempts of llm_filter_panel made so far
    llm_error,          \* "none", "other" or "rate_limit": how the reranker erred
    llm_ids,            \* llm_result.split(): what the reranker returned
    final_ids,          \* the selector's list
    answers,            \* the panels of the response (their ids)
    query_tokens,       \* bm25_search: preprocess_text(query)
    top_k,              \* bm25_search: top_k
    scores,             \* bm25_search: bm25.get_scores(query_tokens), per document
    index_file,         \* the file bm25_index.pkl
    corpus,             \* ids of the rows of table wellcome1st_json_data
    bpc,                \* position of build_index.py's main
    batch_size,         \* build_bm25_index: batch_size
    total_docs,         \* build_bm25_index: total_docs
    offset,             \* build_bm25_index: offset
    tokenized_docs,     \* build_bm25_index: tokenized_docs
    doc_ids,            \* build_bm25_index: doc_ids
    total_processed,    \* build_bm25_index: total_processed
    future_vector,      \* search_pipeline: future_vector, the vector task
    log_file,           \* the file search_results.log, as the logs it holds
    log_pc,             \* per request: where it is in saving its log
    existing_content    \* per request: existing_content read from the file

vars == << pc, scored, filter_in, filter_name, filter_outcome,
                    store_failed, birth_years, regions,
           genders, domain_filters, bm25_results_ids, vector_results_ids, k,
           rrf_sorted, result_count, item_count, top_panels, attempts, llm_error,
           llm_ids, final_ids, answers, query_tokens, top_k, scores, index_file,
           corpus, bpc, batch_size, total_docs, offset, tokenized_docs, doc_ids,
           total_processed, future_vector, log_file, log_pc, existing_content >>

\* the variables of a query and those of a build of the index
lexical_vars == << query_tokens, top_k, scores >>
build_vars == << bpc, batch_size, total_docs, offset, tokenized_docs, doc_ids,
                total_processed >>
log_vars == << log_file, log_pc, existing_content >>

\* Python None as the value of a filter dimension: a value that is no list of
\* years, regions or genders
None == << "None" >>

\* future_vector: the task is not submitted, runs, has returned its list or
\* has raised; after_bm25 tells whether it finished after the lexical task
NotSubmitted == [ state |-> "not_submitted", result |-> << >>, after_bm25 |-> FALSE ]
Running == [ state |-> "running", result |-> << >>, after_bm25 |-> FALSE ]
Returned(ids, late) == [ state |-> "done", result |-> ids, after_bm25 |-> late ]
Raised(late) == [ state |-> "raised", result |-> << >>, after_bm25 |-> late ]

\* ------------------------------------------------------------------ bounds
MaxId == 3
MaxLen == 3
FuseMaxId == 4
FuseMaxLen == 2
FilterMaxId == 5
FilterMaxLen == 3
BuildMaxId == 4
MaxBatch == 3
LexMaxId == 4
MaxScore == 1
ChurnMaxId == 2
MaxQueries == 3
SearchMaxId == 4
SearchMaxLen == 2
VecMaxId == 3

Ids == 1..MaxId
FuseIds == 1..FuseMaxId

\* ------------------------------------------------------------- sequences
Range(s) == { s[i] : i \in DOMAIN s }

IsDistinct(s) == \A i, j \in DOMAIN s : i # j => s[i] # s[j]

\* all sequences of distinct elements of S of length at most n
RECURSIVE DistinctSeqs(_, _)
DistinctSeqs(S, n) ==
    IF n = 0 THEN { << >> }
    ELSE LET shorter == DistinctSeqs(S, n - 1)
         IN  shorter \cup { t \in { Append(s, x) : s \in shorter, x \in S } : IsDistinct(t) }

\* every order in which the elements of S can be listed
RECURSIVE Perms(_)
Perms(S) ==
    IF S = {} THEN { << >> }
    ELSE UNION { { << x >> \o p : p \in Perms(S \ {x}) } : x \in S }

Min(a, b) == IF a <= b THEN a ELSE b
Max(a, b) == IF a >= b THEN a ELSE b

\* Python  s[:n]  (n may be negative: then the last -n elements are dropped)
PySlice(s, n) ==
    LET stop == IF n >= 0 THEN Min(n, Len(s)) ELSE Max(Len(s) + n, 0)
    IN  SubSeq(s, 1, stop)

\* [f(x) for x in s if x in keep]
RECURSIVE SelectIn(_, _)
SelectIn(s, keep) ==
    IF s = << >> THEN << >>
    ELSE IF Head(s) \in keep THEN << Head(s) >> \o SelectIn(Tail(s), keep)
    ELSE SelectIn(Tail(s), keep)

\* a is a subsequence of b
RECURSIVE IsSubseq(_, _)
IsSubseq(a, b) ==
    IF a = << >> THEN TRUE
    ELSE IF b = << >> THEN FALSE
    ELSE IF Head(a) = Head(b) THEN IsSubseq(Tail(a), Tail(b))
    ELSE IsSubseq(a, Tail(b))

\* ------------------------------------------------------------ rank fusion
\* RankOf with the default rank of an absent id off by one (len(ids), the rank
\* of the last present id)
RankOf_absent_len(ids, id) ==
    IF id \in Range(ids)
    THEN CHOOSE i \in DOMAIN ids : ids[i] = id /\ \A j \in DOMAIN ids : ids[j] = id => j <= i
    ELSE Len(ids)

\* {id_: rank + 1 for rank, id_ in enumerate(ids)}.get(id_, len(ids) + 1)
RankOf(ids, id) ==
    IF id \in Range(ids)
    THEN CHOOSE i \in DOMAIN ids : ids[i] = id /\ \A j \in DOMAIN ids : ids[j] = id => j <= i
    ELSE Len(ids) + 1

\* the numerator of a score that leaves the vector rank out: 1.0/(k + bm25_rank)
RrfScoreNum_bm25_only(kk, bm25_rank, vector_rank) == kk + vector_rank

\* rrf_score = 1.0/(k + bm25_rank) + 1.0/(k + vector_rank), as num/den
RrfScoreNum(kk, bm25_rank, vector_rank) == (kk + vector_rank) + (kk + bm25_rank)
RrfScoreDen(kk, bm25_rank, vector_rank) == (kk + bm25_rank) * (kk + vector_rank)

\* the loop  for id_ in all_ids: rrf_input.append({...})
RrfInput(all_ids, bm25_ids, vector_ids, kk) ==
    [ i \in DOMAIN all_ids |->
        LET bm25_rank == RankOf(bm25_ids, all_ids[i])
            vector_rank == RankOf(vector_ids, all_ids[i])
        IN  [ id |-> all_ids[i],
              num |-> RrfScoreNum(kk, bm25_rank, vector_rank),
              den |-> RrfScoreDen(kk, bm25_rank, vector_rank) ] ]

ScoreLess(a, b) == a.num * b.den < b.num * a.den
ScoreEq(a, b) == a.num * b.den = b.num * a.den

\* sorted(rrf_input, key=rrf_score, reverse=True): a stable sort, so candidates
\* of equal score stay in the order they have in rrf_input
RECURSIVE InsertByScore(_, _)
InsertByScore(sorted, x) ==
    IF sorted = << >> THEN << x >>
    ELSE IF ScoreLess(Head(sorted), x) THEN << x >> \o sorted
    ELSE << Head(sorted) >> \o InsertByScore(Tail(sorted), x)

RECURSIVE SortedReverse(_)
SortedReverse(s) ==
    IF s = << >> THEN << >>
    ELSE InsertByScore(SortedReverse(SubSeq(s, 1, Len(s) - 1)), s[Len(s)])

IdsOf(panels) == [ i \in DOMAIN panels |-> panels[i].id ]

\* search_pipeline, step 3: all_ids = list(set(bm25_ids + vector_ids)) lists the
\* union in the iteration order of a set of strings, which is any order
RrfFusion ==
    /\ pc = "searched"
    /\ \E all_ids \in Perms(Range(bm25_results_ids) \cup Range(vector_results_ids)) :
          rrf_sorted' = SortedReverse(RrfInput(all_ids, bm25_results_ids,
                                               vector_results_ids, k))
    /\ pc' = "fused"
    /\ UNCHANGED << lexical_vars, index_file, corpus, build_vars, future_vector, log_vars, scored, filter_in, filter_name, filter_outcome,
                    store_failed, birth_years, regions,
                    genders, domain_filters, bm25_results_ids, vector_results_ids, k,
                    result_count, item_count, top_panels, attempts, llm_error,
                    llm_ids, final_ids, answers >>

\* The same query fused once more (search.py 159-192 run by a later request,
\* by another worker process or after a restart). The iteration order of a set
\* of strings follows the strings' hashes, which are salted anew in every
\* interpreter process, so the second run may list all_ids in another order.
FuseAgain ==
    /\ pc = "fused"
    /\ \E all_ids \in Perms(Range(bm25_results_ids) \cup Range(vector_results_ids)) :
          rrf_sorted' = SortedReverse(RrfInput(all_ids, bm25_results_ids,
                                               vector_results_ids, k))
    /\ pc' = "fused"
    /\ UNCHANGED << lexical_vars, index_file, corpus, build_vars, future_vector, log_vars, scored, filter_in, filter_name, filter_outcome,
                    store_failed, birth_years, regions,
                    genders, domain_filters, bm25_results_ids, vector_results_ids, k,
                    result_count, item_count, top_panels, attempts, llm_error,
                    llm_ids, final_ids, answers >>

\* ------------------------------------------------------ the corpus store
\* Table wellcome1st_json_data: one row per panel id (id is the key that
\* wellcome1st_vector_data.fk_id refers to). info_text of a row is a JSON
\* object; Missing marks a key the object does not have, JsonNull a key whose
\* value is null. Panel 5 (and 10, ...) is in no row of the table.
Missing == "Missing"
JsonNull == "JsonNull"
OttKey == "ott"
DrinkKey == "drink"

HasRow(id) == id >= 1 /\ id % 5 # 0

PanelRow(id) ==
    CASE id % 5 = 1 ->
           [ birth |-> "1990", region |-> "Seoul", gender |-> "M",
             ott |-> "2", drink |-> Missing ]
      [] id % 5 = 2 ->
           [ birth |-> "1991", region |-> "Busan", gender |-> "F",
             ott |-> "", drink |-> "1" ]
      [] id % 5 = 3 ->
           [ birth |-> Missing, region |-> "Gyeonggi", gender |-> Missing,
             ott |-> Missing, drink |-> JsonNull ]
      [] OTHER ->
           [ birth |-> "1991", region |-> Missing, gender |-> "F",
             ott |-> "1", drink |-> "1" ]

\* get_jsons_by_ids with one row per requested id, in the order of the request
GetJsonsByIds_per_id(ids) == { SelectIn(ids, { id \in Range(ids) : HasRow(id) }) }

\* get_jsons_by_ids(ids): SELECT ... WHERE id IN ids, without ORDER BY: every
\* row whose id is requested, once, in whatever order the store returns them.
\* The set of the possible results.
GetJsonsByIds(ids) ==
    IF ids = << >> THEN { << >> }
    ELSE Perms({ id \in Range(ids) : HasRow(id) })

\* ------------------------------------------------------ attribute filters
\* (info_text::jsonb->>field) = ANY(values), with a panel whose field is
\* missing or null passing the condition
FieldMatches_missing_passes(id, field, values) ==
    /\ HasRow(id)
    /\ PanelRow(id)[field] \in Range(values) \cup { Missing, JsonNull }

\* WHERE id = ANY(ids) AND (info_text::jsonb->>field) = ANY(values):
\* ->> of a missing key or of null is NULL, which equals nothing
FieldMatches(id, field, values) ==
    /\ HasRow(id)
    /\ PanelRow(id)[field] \notin { Missing, JsonNull }
    /\ PanelRow(id)[field] \in Range(values)

\* has_field_info 536-546: some key is present, not null and not ''
HasSomeKey(id, field_keywords) ==
    /\ HasRow(id)
    /\ \E i \in DOMAIN field_keywords :
          PanelRow(id)[field_keywords[i]] \notin { Missing, JsonNull, "" }

\* What a filter does once it goes to the store (db_search.py 197-223, and
\* the same lines of the other three filters): get_json_db_conn() and
\* conn.cursor() are called before the try, so their failure leaves the
\* filter as an exception; a failure of execute or fetchall is caught and
\* the input is returned; otherwise the rows that match come back in
\* whatever order the store returns them (the SELECT has no ORDER BY).
StoreQuery(ids, matching) ==
    { [ outcome |-> "connect_fails", out |-> ids ],
      [ outcome |-> "execute_fails", out |-> ids ],
      [ outcome |-> "fetch_fails", out |-> ids ] }
    \cup { [ outcome |-> "ok", out |-> rows ] : rows \in Perms(matching) }

Untouched(ids) == { [ outcome |-> "no_query", out |-> ids ] }

\* filter_by_birth_years(ids, birth_years_str)
FilterByBirthYears(ids, years) ==
    IF years = None \/ ids = << >> THEN Untouched(ids)
    ELSE StoreQuery(ids, { id \in Range(ids) : FieldMatches(id, "birth", years) })

\* filter_by_regions(ids, regions)
FilterByRegions(ids, rs) ==
    IF rs = None \/ ids = << >> THEN Untouched(ids)
    ELSE StoreQuery(ids, { id \in Range(ids) : FieldMatches(id, "region", rs) })

\* filter_by_gender(ids, genders)
FilterByGender(ids, gs) ==
    IF gs = None \/ ids = << >> THEN Untouched(ids)
    ELSE StoreQuery(ids, { id \in Range(ids) : FieldMatches(id, "gender", gs) })

\* has_field_info(ids, field_keywords)
HasFieldInfo(ids, field_keywords) ==
    IF ids = << >> \/ field_keywords = << >> THEN Untouched(ids)
    ELSE StoreQuery(ids, { id \in Range(ids) : HasSomeKey(id, field_keywords) })

\* the effect of one filter call on the lexical list
FilterStep(name, results, next_pc) ==
    \E r \in results :
        /\ filter_name' = name
        /\ filter_in' = bm25_results_ids
        /\ filter_outcome' = r.outcome
        /\ bm25_results_ids' = r.out
        /\ store_failed' = (store_failed \/ r.outcome \in
                              { "connect_fails", "execute_fails", "fetch_fails" })
        /\ pc' = IF r.outcome = "connect_fails" THEN "raised" ELSE next_pc

FilterUnchanged ==
    UNCHANGED << lexical_vars, index_file, corpus, build_vars, future_vector, log_vars, scored, birth_years, regions, genders, domain_filters,
                 vector_results_ids, k, rrf_sorted, result_count, item_count,
                 top_panels, attempts, llm_error, llm_ids, final_ids, answers >>

\* bm25_search 379-381
ApplyBirthYears ==
    /\ pc = "bm25_scored"
    /\ IF birth_years # None
       THEN FilterStep("filter_by_birth_years",
                       FilterByBirthYears(bm25_results_ids, birth_years), "birth_done")
       ELSE /\ pc' = "birth_done"
            /\ UNCHANGED << filter_name, filter_in, filter_outcome, bm25_results_ids,
                            store_failed >>
    /\ FilterUnchanged

\* bm25_search 383-385
ApplyRegions ==
    /\ pc = "birth_done"
    /\ IF regions # None
       THEN FilterStep("filter_by_regions",
                       FilterByRegions(bm25_results_ids, regions), "regions_done")
       ELSE /\ pc' = "regions_done"
            /\ UNCHANGED << filter_name, filter_in, filter_outcome, bm25_results_ids,
                            store_failed >>
    /\ FilterUnchanged

\* bm25_search 387-391
ApplyGender ==
    /\ pc = "regions_done"
    /\ IF genders # None
       THEN FilterStep("filter_by_gender",
                       FilterByGender(bm25_results_ids, genders), "bm25_returned")
       ELSE /\ pc' = "bm25_returned"
            /\ UNCHANGED << filter_name, filter_in, filter_outcome, bm25_results_ids,
                            store_failed >>
    /\ FilterUnchanged

\* -------------------------------------------- the vector task and the join
\* fk_id of the rows of wellcome1st_vector_data
VecIds == 1..VecMaxId

\* search.py 83: top_k=36000
VectorTopK == 36000

\* vector_search 422-452 without the gender condition
VectorSearchResult_no_gender(near, years, rs, gs) ==
    LET has_filters == years # None \/ rs # None \/ gs # None
        joined == { id \in Range(near) :
                      /\ HasRow(id)
                      /\ years # None => FieldMatches(id, "birth", years)
                      /\ rs # None => FieldMatches(id, "region", rs) }
    IN  PySlice(IF has_filters THEN SelectIn(near, joined) ELSE near, VectorTopK)

\* vector_search 419-466 for the rows of the vector table in ascending
\* distance `near`: with a filter, the rows joined to their panel that meet
\* every condition of the WHERE clause; without, all rows; LIMIT top_k
VectorSearchResult(near, years, rs, gs) ==
    LET has_filters == years # None \/ rs # None \/ gs # None
        joined == { id \in Range(near) :
                      /\ HasRow(id)
                      /\ years # None => FieldMatches(id, "birth", years)
                      /\ rs # None => FieldMatches(id, "region", rs)
                      /\ gs # None => FieldMatches(id, "gender", gs) }
    IN  PySlice(IF has_filters THEN SelectIn(near, joined) ELSE near, VectorTopK)

\* search.py 80-84, 88 and db_search.py 415-470: the vector task runs
\* get_query_vector and vector_search in its thread. The distances depend on
\* the query, so the rows come in any order. vector_search has try/finally
\* without except and get_query_vector raises ValueError without its model:
\* a failure of the embedding, of the connection or of the query leaves the
\* task with an exception.
VectorSearch ==
    /\ future_vector.state = "running"
    /\ pc # "raised"
    /\ LET late == pc = "bm25_returned"
       IN  \/ \E near \in Perms(VecIds) :
                 future_vector' =
                     Returned(VectorSearchResult(near, birth_years, regions, genders), late)
           \/ future_vector' = Raised(late)
    /\ UNCHANGED << lexical_vars, index_file, corpus, build_vars, log_vars, pc,
                    scored, filter_in, filter_name, filter_outcome, store_failed,
                    birth_years, regions, genders, domain_filters,
                    bm25_results_ids, vector_results_ids, k, rrf_sorted,
                    result_count, item_count, top_panels, attempts, llm_error,
                    llm_ids, final_ids, answers >>

\* the two lists taken in the order in which the tasks completed
JoinedLists_in_completion_order(lex_ids, fut) ==
    IF fut.after_bm25 THEN << lex_ids, fut.result >> ELSE << fut.result, lex_ids >>

\* search.py 95-96: bm25_results_ids = future_bm25.result(),
\* vector_results_ids = future_vector.result()
JoinedLists(lex_ids, fut) == << lex_ids, fut.result >>

JoinUnchanged ==
    UNCHANGED << lexical_vars, index_file, corpus, build_vars, log_vars,
                 future_vector, scored, filter_in, filter_name, filter_outcome,
                 store_failed, birth_years, regions, genders, domain_filters, k,
                 rrf_sorted, result_count, item_count, top_panels, attempts,
                 llm_error, llm_ids, final_ids, answers >>

\* search.py 92-96: wait([future_bm25, future_vector]) returns when both
\* tasks are done; both have returned a list
Join ==
    /\ pc = "bm25_returned"
    /\ future_vector.state = "done"
    /\ bm25_results_ids' = JoinedLists(bm25_results_ids, future_vector)[1]
    /\ vector_results_ids' = JoinedLists(bm25_results_ids, future_vector)[2]
    /\ pc' = "joined"
    /\ JoinUnchanged

\* search.py 96: future_vector.result() raises the exception of the task
JoinRaises ==
    /\ pc = "bm25_returned"
    /\ future_vector.state = "raised"
    /\ pc' = "raised"
    /\ UNCHANGED << bm25_results_ids, vector_results_ids >>
    /\ JoinUnchanged

\* search.py 136-141
ApplyDomainFilters ==
    /\ pc = "joined"
    /\ IF domain_filters # << >>
       THEN FilterStep("has_field_info",
                       HasFieldInfo(bm25_results_ids, domain_filters), "domain_bm25_done")
       ELSE /\ pc' = "searched"
            /\ UNCHANGED << filter_name, filter_in, filter_outcome, bm25_results_ids,
                            store_failed >>
    /\ FilterUnchanged

\* search.py 143-147: has_field_info on the vector list
ApplyDomainFiltersVector ==
    /\ pc = "domain_bm25_done"
    /\ \E r \in HasFieldInfo(vector_results_ids, domain_filters) :
          /\ vector_results_ids' = r.out
          /\ store_failed' = (store_failed \/ r.outcome \in
                                { "connect_fails", "execute_fails", "fetch_fails" })
          /\ pc' = IF r.outcome = "connect_fails" THEN "raised" ELSE "searched"
    /\ UNCHANGED << lexical_vars, index_file, corpus, build_vars, log_vars,
                    future_vector, scored, filter_in, filter_name, filter_outcome,
                    birth_years, regions, genders, domain_filters,
                    bm25_results_ids, k, rrf_sorted, result_count, item_count,
                    top_panels, attempts, llm_error, llm_ids, final_ids, answers >>

\* ---------------------------------------------------- candidate selector
NoRerankThreshold == 100
MaxAttempts == 5

\* line 71 and line 193
TakeTopPanels ==
    /\ pc = "fused"
    /\ LET rrf_count == Min(result_count * 3, item_count)
       IN  top_panels' = PySlice(rrf_sorted, Min(rrf_count, Len(rrf_sorted)))
    /\ pc' = IF result_count > NoRerankThreshold THEN "skip_llm" ELSE "llm"
    /\ UNCHANGED << lexical_vars, index_file, corpus, build_vars, future_vector, log_vars, scored, filter_in, filter_name, filter_outcome,
                    store_failed, birth_years, regions,
                    genders, domain_filters, bm25_results_ids, vector_results_ids, k,
                    rrf_sorted, result_count, item_count, attempts, llm_error,
                    llm_ids, final_ids, answers >>

\* lines 212-223: result_count > 100
SkipLlm ==
    /\ pc = "skip_llm"
    /\ final_ids' = PySlice(IdsOf(top_panels), result_count)
    /\ pc' = "selected"
    /\ UNCHANGED << lexical_vars, index_file, corpus, build_vars, future_vector, log_vars, scored, filter_in, filter_name, filter_outcome,
                    store_failed, birth_years, regions,
                    genders, domain_filters, bm25_results_ids, vector_results_ids, k,
                    rrf_sorted, result_count, item_count, top_panels, attempts,
                    llm_error, llm_ids, answers >>

\* what the reranker's answer can split() into: ids of the store, of the slate
\* or not, repeated or not, and words that are no id (Junk)
Junk == 0
LlmTokens(slate) == Range(slate) \cup Ids \cup { Junk }

RECURSIVE SeqsUpTo(_, _)
SeqsUpTo(S, n) ==
    IF n = 0 THEN { << >> }
    ELSE LET shorter == SeqsUpTo(S, n - 1)
         IN  shorter \cup { Append(s, x) : s \in shorter, x \in S }

LlmUnchanged ==
    UNCHANGED << lexical_vars, index_file, corpus, build_vars, future_vector, log_vars, scored, filter_in, filter_name, filter_outcome,
                    store_failed, birth_years, regions,
                 genders, domain_filters, bm25_results_ids, vector_results_ids, k,
                 rrf_sorted, result_count, item_count, top_panels, final_ids, answers >>

\* sonnet_api.py 254-255: no candidate, no call
LlmNoPanels ==
    /\ pc = "llm"
    /\ attempts = 0
    /\ GetJsonsByIds(IdsOf(top_panels)) = { << >> }
    /\ llm_ids' = << >>
    /\ pc' = "llm_returned"
    /\ UNCHANGED << attempts, llm_error >>
    /\ LlmUnchanged

\* sonnet_api.py 375-392 and search.py 237-239: the reranker answers; the text
\* inside <result>, or the whole text without the tag, is split into words
LlmAnswers ==
    /\ pc = "llm"
    /\ attempts < MaxAttempts
    /\ GetJsonsByIds(IdsOf(top_panels)) # { << >> }
    /\ attempts' = attempts + 1
    /\ \E words \in SeqsUpTo(LlmTokens(IdsOf(top_panels)), Len(top_panels) + 1) :
          llm_ids' = words
    /\ llm_error' = "none"
    /\ pc' = "llm_returned"
    /\ LlmUnchanged

\* the retry decorator retrying on every exception
LlmOtherError_retried ==
    /\ pc = "llm"
    /\ attempts < MaxAttempts
    /\ GetJsonsByIds(IdsOf(top_panels)) # { << >> }
    /\ attempts' = attempts + 1
    /\ llm_error' = "other"
    /\ pc' = IF attempts + 1 < MaxAttempts THEN "llm" ELSE "raised"
    /\ UNCHANGED llm_ids
    /\ LlmUnchanged

\* sonnet_api.py 396-398: any error but a rate limit is caught, "" is returned
LlmOtherError ==
    /\ pc = "llm"
    /\ attempts < MaxAttempts
    /\ GetJsonsByIds(IdsOf(top_panels)) # { << >> }
    /\ attempts' = attempts + 1
    /\ llm_ids' = << >>
    /\ llm_error' = "other"
    /\ pc' = "llm_returned"
    /\ LlmUnchanged

\* sonnet_api.py 394-395 and 236-241: RateLimitError is re-raised to the retry
\* decorator, which calls again until stop_after_attempt(5) and then raises
\* RetryError, which nothing in search_pipeline catches
LlmRateLimited ==
    /\ pc = "llm"
    /\ attempts < MaxAttempts
    /\ GetJsonsByIds(IdsOf(top_panels)) # { << >> }
    /\ attempts' = attempts + 1
    /\ llm_error' = "rate_limit"
    /\ pc' = IF attempts + 1 < MaxAttempts THEN "llm" ELSE "raised"
    /\ UNCHANGED llm_ids
    /\ LlmUnchanged

\* remaining_panels with the ids already selected left in
RemainingPanels_all(panels, selected) == IdsOf(panels)

\* line 254: [p for p in top_panels if p['id'] not in final_ids], as ids
RemainingPanels(panels, selected) ==
    SelectIn(IdsOf(panels), Range(IdsOf(panels)) \ Range(selected))

\* search.py 239-260
Backfill ==
    /\ pc = "llm_returned"
    /\ final_ids' =
         IF Len(llm_ids) < result_count
         THEN LET shortage == result_count - Len(llm_ids)
                  remaining_panels == RemainingPanels(top_panels, llm_ids)
              IN  llm_ids \o PySlice(remaining_panels, shortage)
         ELSE llm_ids
    /\ pc' = "selected"
    /\ UNCHANGED << lexical_vars, index_file, corpus, build_vars, future_vector, log_vars, scored, filter_in, filter_name, filter_outcome,
                    store_failed, birth_years, regions,
                    genders, domain_filters, bm25_results_ids, vector_results_ids, k,
                    rrf_sorted, result_count, item_count, top_panels, attempts,
                    llm_error, llm_ids, answers >>

\* search.py 262-278: fetch the panels of final_ids, cut to result_count
Respond ==
    /\ pc = "selected"
    /\ \E answers_full \in GetJsonsByIds(final_ids) :
          answers' = PySlice(answers_full, Min(result_count, Len(answers_full)))
    /\ pc' = "done"
    /\ UNCHANGED << lexical_vars, index_file, corpus, build_vars, future_vector, log_vars, scored, filter_in, filter_name, filter_outcome,
                    store_failed, birth_years, regions,
                    genders, domain_filters, bm25_results_ids, vector_results_ids, k,
                    rrf_sorted, result_count, item_count, top_panels, attempts,
                    llm_error, llm_ids, final_ids >>

\* search.py 317-326: the dictionary returned to the caller. The two query
\* texts and the time are opaque here; console_log is free text whose last
\* count line reads "returned : n (requested: m)".
Response ==
    [ original_query |-> "item.query",
      clean_query    |-> "clean_query",
      result         |-> answers,
      console_log    |-> << "returned", Len(answers), "requested", result_count >>,
      metrics        |-> [ total_time  |-> "t1 - t0",
                           final_count |-> Len(answers) ] ]

\* ------------------------------------------------- the snapshot file
\* bm25_index.pkl holds pickle.dump((bm25, doc_ids)): bm25 is BM25Okapi over
\* tokenized_docs, kept here as the token lists themselves. kind tells whether
\* the file exists and whether pickle.load can read it.
NoFile == [ kind |-> "missing", doc_ids |-> << >>, docs |-> << >> ]
Unreadable == [ kind |-> "unreadable", doc_ids |-> << >>, docs |-> << >> ]
Snapshot(ids, docs) == [ kind |-> "snapshot", doc_ids |-> ids, docs |-> docs ]

\* ------------------------------------------------ building the snapshot
\* the ids of the table's rows among 1..n
TableIds(n) == { id \in 1..n : HasRow(id) }

\* preprocess_text(info_text) of the row of panel id: the tokens that the
\* normalisation, the morphological analysis and the part-of-speech filter
\* leave. The text of panel 3 (8, ...) leaves none.
DocTokens(id) ==
    CASE id % 5 = 1 -> << "seoul" >>
      [] id % 5 = 2 -> << "seoul", "ott" >>
      [] id % 5 = 3 -> << >>
      [] id % 5 = 4 -> << "ott", "ott" >>
      [] OTHER      -> << "busan" >>

\* the elements of a set of ids, ascending: ORDER BY id
RECURSIVE Ascending(_)
Ascending(S) ==
    IF S = {} THEN << >>
    ELSE LET least == CHOOSE x \in S : \A y \in S : x <= y
         IN  << least >> \o Ascending(S \ {least})

\* a page that starts one row early, at the last row of the page before
Page_one_row_early(rows, limit, off) ==
    SubSeq(Ascending(rows), Max(off, 1), Min(off + limit, Cardinality(rows)))

\* SELECT id, info_text ... ORDER BY id LIMIT limit OFFSET off
Page(rows, limit, off) ==
    SubSeq(Ascending(rows), off + 1, Min(off + limit, Cardinality(rows)))

\* the loop over a batch: the rows whose text leaves tokens
RECURSIVE WithTokens(_)
WithTokens(batch) ==
    IF batch = << >> THEN << >>
    ELSE IF DocTokens(Head(batch)) # << >>
         THEN << Head(batch) >> \o WithTokens(Tail(batch))
         ELSE WithTokens(Tail(batch))

TokensOf(ids) == [ i \in DOMAIN ids |-> DocTokens(ids[i]) ]

BuildUnchanged ==
    UNCHANGED << pc, scored, filter_in, filter_name, filter_outcome,
                 store_failed, birth_years, regions, genders, domain_filters,
                 bm25_results_ids, vector_results_ids, k, rrf_sorted,
                 result_count, item_count, top_panels, attempts, llm_error,
                 llm_ids, final_ids, answers, lexical_vars, corpus,
                 future_vector, log_vars >>

\* where a run of build_index.py has ended
Ended == { "not_started", "saved", "build_failed", "save_failed" }

\* main 232-252: the script is run; batch_size is int(sys.argv[1]) or 5000
StartBuild ==
    /\ bpc \in Ended
    /\ \E size \in 0..MaxBatch : batch_size' = size
    /\ bpc' = "connecting"
    /\ total_docs' = 0
    /\ offset' = 0
    /\ tokenized_docs' = << >>
    /\ doc_ids' = << >>
    /\ total_processed' = 0
    /\ UNCHANGED index_file
    /\ BuildUnchanged

\* build_bm25_index 58-66
Connect ==
    /\ bpc = "connecting"
    /\ \E connected \in BOOLEAN :
          bpc' = IF connected THEN "counting" ELSE "build_failed"
    /\ UNCHANGED << index_file, batch_size, total_docs, offset, tokenized_docs,
                    doc_ids, total_processed >>
    /\ BuildUnchanged

\* build_bm25_index 68-91: SELECT COUNT(*), then the loop is entered or not
CountDocs ==
    /\ bpc = "counting"
    /\ \E counted \in BOOLEAN :
          IF counted
          THEN /\ total_docs' = Cardinality(corpus)
               /\ bpc' = IF 0 < Cardinality(corpus) THEN "paging" ELSE "paged"
          ELSE /\ total_docs' = total_docs
               /\ bpc' = "build_failed"
    /\ UNCHANGED << index_file, batch_size, offset, tokenized_docs, doc_ids,
                    total_processed >>
    /\ BuildUnchanged

\* build_bm25_index 91-132: one turn of the loop  while offset < total_docs
FetchPage ==
    /\ bpc = "paging"
    /\ \E fetched \in BOOLEAN :
          IF fetched
          THEN LET batch == Page(corpus, batch_size, offset)
               IN  IF batch = << >>
                   THEN /\ bpc' = "paged"
                        /\ UNCHANGED << offset, tokenized_docs, doc_ids,
                                        total_processed >>
                   ELSE /\ doc_ids' = doc_ids \o WithTokens(batch)
                        /\ tokenized_docs' = tokenized_docs \o TokensOf(WithTokens(batch))
                        /\ total_processed' = total_processed + Len(batch)
                        /\ offset' = offset + batch_size
                        /\ bpc' = IF offset + batch_size < total_docs
                                  THEN "paging" ELSE "paged"
          ELSE /\ bpc' = "build_failed"
               /\ UNCHANGED << offset, tokenized_docs, doc_ids, total_processed >>
    /\ UNCHANGED << index_file, batch_size, total_docs >>
    /\ BuildUnchanged

\* the index is constructed from an empty list of documents as well
ConstructIndex_accepts_empty ==
    /\ bpc = "paged"
    /\ \E constructed \in BOOLEAN :
          bpc' = IF constructed THEN "built" ELSE "build_failed"
    /\ UNCHANGED << index_file, batch_size, total_docs, offset, tokenized_docs,
                    doc_ids, total_processed >>
    /\ BuildUnchanged

\* build_bm25_index 145-157: BM25Okapi(tokenized_docs) divides by the number of
\* documents (avgdl), so it raises on an empty list; it may also fail for lack
\* of memory
ConstructIndex ==
    /\ bpc = "paged"
    /\ \E constructed \in BOOLEAN :
          bpc' = IF constructed /\ tokenized_docs # << >> THEN "built"
                 ELSE "build_failed"
    /\ UNCHANGED << index_file, batch_size, total_docs, offset, tokenized_docs,
                    doc_ids, total_processed >>
    /\ BuildUnchanged

\* save_index 171-172: open(output_file, 'wb') creates the file or empties it
OpenIndexFile ==
    /\ bpc = "built"
    /\ \E opened \in BOOLEAN :
          IF opened
          THEN /\ index_file' = Unreadable
               /\ bpc' = "writing"
          ELSE /\ index_file' = index_file
               /\ bpc' = "save_failed"
    /\ UNCHANGED << batch_size, total_docs, offset, tokenized_docs, doc_ids,
                    total_processed >>
    /\ BuildUnchanged

\* save_index 173-185: pickle.dump((bm25, doc_ids), f) into the open file; an
\* error leaves what was written so far
DumpIndex ==
    /\ bpc = "writing"
    /\ \E dumped \in BOOLEAN :
          IF dumped
          THEN /\ index_file' = Snapshot(doc_ids, tokenized_docs)
               /\ bpc' = "saved"
          ELSE /\ index_file' = Unreadable
               /\ bpc' = "save_failed"
    /\ UNCHANGED << batch_size, total_docs, offset, tokenized_docs, doc_ids,
                    total_processed >>
    /\ BuildUnchanged

\* Another session commits an INSERT or a DELETE on wellcome1st_json_data
\* while the build reads it. The build's connection is psycopg2's default
\* (db_search.py 23-25: READ COMMITTED), so each SELECT of the loop
\* (build_index.py 94-98) sees the rows committed before it started. Only the
\* rows 1..ChurnMaxId come and go; a change before the count is another
\* initial table, one after the last page is not seen by the build.
CorpusChange ==
    /\ bpc = "paging"
    /\ \E id \in 1..ChurnMaxId :
          corpus' = IF id \in corpus THEN corpus \ { id } ELSE corpus \cup { id }
    /\ UNCHANGED << index_file, build_vars, future_vector, log_vars, lexical_vars, pc, scored, filter_in,
                    filter_name, filter_outcome, store_failed, birth_years,
                    regions, genders, domain_filters, bm25_results_ids,
                    vector_results_ids, k, rrf_sorted, result_count, item_count,
                    top_panels, attempts, llm_error, llm_ids, final_ids,
                    answers >>

\* no bm25_search has run
InitLexicalIdle ==
    /\ query_tokens = << >>
    /\ top_k = 36000
    /\ scores = << >>

\* no request is saving its log, search_results.log does not exist
LogQueries == 1..MaxQueries

InitLogIdle ==
    /\ log_file = << >>
    /\ log_pc = [ q \in LogQueries |-> "not_started" ]
    /\ existing_content = [ q \in LogQueries |-> << >> ]

\* build_index.py has not been started; batch_size is its default
InitBuildIdle ==
    /\ bpc = "not_started"
    /\ batch_size = 5000
    /\ total_docs = 0
    /\ offset = 0
    /\ tokenized_docs = << >>
    /\ doc_ids = << >>
    /\ total_processed = 0

\* ------------------------------------------------- lexical retrieval
SharesToken(doc, tokens) == Range(doc) \cap Range(tokens) # {}

\* bm25.get_scores(query_tokens) of rank_bm25: one float per document of the
\* snapshot, the sum over the query tokens of idf * tf-weight. A document
\* holding none of the tokens scores 0. The float of a document holding one is
\* modelled as any integer of 0..MaxScore (an idf of 0 gives 0 there as well).
Bm25Scores(docs, tokens) ==
    { sc \in [ DOMAIN docs -> 0..MaxScore ] :
        \A i \in DOMAIN docs : ~SharesToken(docs[i], tokens) => sc[i] = 0 }

\* the documents of the snapshot with their scores, in snapshot order
ScoredDocs(ids, sc) == [ i \in DOMAIN ids |-> [ id |-> ids[i], num |-> sc[i], den |-> 1 ] ]

\* sorted(range(len(scores)), key=lambda i: scores[i], reverse=True)[:top_k],
\* as the scored documents at those indices
TopIndices(scored_docs, topk) == PySlice(SortedReverse(scored_docs), topk)

\* bm25_search with an unreadable file not caught: the error leaves bm25_search
\* and, through future_bm25.result(), search_pipeline
Bm25Retrieve_load_error_raises ==
    /\ pc = "bm25_start"
    /\ IF index_file.kind # "snapshot" \/ query_tokens = << >>
       THEN /\ scores' = << >>
            /\ scored' = << >>
            /\ pc' = IF index_file.kind = "unreadable" THEN "raised" ELSE "bm25_returned"
       ELSE /\ \E sc \in Bm25Scores(index_file.docs, query_tokens) :
                  scores' = ScoredDocs(index_file.doc_ids, sc)
            /\ scored' = IdsOf(TopIndices(scores', top_k))
            /\ pc' = "bm25_scored"
    /\ bm25_results_ids' = scored'
    /\ UNCHANGED << query_tokens, top_k, index_file, corpus, build_vars, future_vector, log_vars, filter_in,
                    filter_name, filter_outcome, store_failed, birth_years,
                    regions, genders, domain_filters, vector_results_ids, k,
                    rrf_sorted, result_count, item_count, top_panels, attempts,
                    llm_error, llm_ids, final_ids, answers >>

\* bm25_search 338-371: load the snapshot, tokenise the query, score, take the
\* top_k. A missing or unreadable file and a query without tokens return []
\* at once (lines 347, 350, 361).
Bm25Retrieve ==
    /\ pc = "bm25_start"
    /\ IF index_file.kind # "snapshot" \/ query_tokens = << >>
       THEN /\ scores' = << >>
            /\ scored' = << >>
            /\ pc' = "bm25_returned"
       ELSE /\ \E sc \in Bm25Scores(index_file.docs, query_tokens) :
                  scores' = ScoredDocs(index_file.doc_ids, sc)
            /\ scored' = IdsOf(TopIndices(scores', top_k))
            /\ pc' = "bm25_scored"
    /\ bm25_results_ids' = scored'
    /\ UNCHANGED << query_tokens, top_k, index_file, corpus, build_vars, future_vector, log_vars, filter_in,
                    filter_name, filter_outcome, store_failed, birth_years,
                    regions, genders, domain_filters, vector_results_ids, k,
                    rrf_sorted, result_count, item_count, top_panels, attempts,
                    llm_error, llm_ids, final_ids, answers >>

\* ------------------------------------------------- specification: build
\* build_index.py is run, again and again, over a table that does not change
InitBuild ==
    /\ InitLexicalIdle
    /\ InitBuildIdle
    /\ InitLogIdle
    /\ future_vector = NotSubmitted
    /\ index_file = NoFile
    /\ corpus \in SUBSET (1..BuildMaxId)
    /\ pc = "idle"
    /\ scored = << >>
    /\ filter_in = << >>
    /\ filter_name = "none"
    /\ filter_outcome = "no_query"
    /\ store_failed = FALSE
    /\ birth_years = None
    /\ regions = None
    /\ genders = None
    /\ domain_filters = << >>
    /\ bm25_results_ids = << >>
    /\ vector_results_ids = << >>
    /\ k = 60
    /\ rrf_sorted = << >>
    /\ result_count = 30
    /\ item_count = 150
    /\ top_panels = << >>
    /\ attempts = 0
    /\ llm_error = "none"
    /\ llm_ids = << >>
    /\ final_ids = << >>
    /\ answers = << >>

NextBuild ==
    \/ StartBuild
    \/ Connect
    \/ CountDocs
    \/ FetchPage
    \/ ConstructIndex
    \/ OpenIndexFile
    \/ DumpIndex

SpecBuild == InitBuild /\ [][NextBuild]_vars

\* ------------------------------------- specification: build, live table
\* build_index.py is run while other sessions insert and delete rows
NextBuildLive ==
    \/ StartBuild
    \/ Connect
    \/ CountDocs
    \/ FetchPage
    \/ CorpusChange
    \/ ConstructIndex
    \/ OpenIndexFile
    \/ DumpIndex

SpecBuildLive == InitBuild /\ [][NextBuildLive]_vars

\* ----------------------------------------------- specification: lexical
\* A query reaches bm25_search. The snapshot file is missing, unreadable, or
\* the one a build has saved from some table, unchanged during the build or
\* not; the vector branch has returned its list.
BuiltSnapshot(rows) ==
    LET ids == Ascending({ id \in rows : DocTokens(id) # << >> })
    IN  Snapshot(ids, TokensOf(ids))

\* the snapshot that a build leaves whose pages were shifted by rows deleted
\* and inserted in between (table {1, 4}, batch size 1: row 1 deleted, page
\* [4], rows 1 and 2 inserted, page [2])
ShiftedSnapshot == Snapshot(<< 4, 2 >>, TokensOf(<< 4, 2 >>))

SnapshotFiles ==
    { NoFile, Unreadable, ShiftedSnapshot }
        \cup { BuiltSnapshot(rows) : rows \in { r \in SUBSET (1..LexMaxId) :
                                                  \E id \in r : DocTokens(id) # << >> } }

QueryTokenChoices == { << >>, << "seoul" >>, << "ott", "seoul" >>, << "jeju" >> }
TopKs == { 1, 2, 36000 }
VectorChoices == { << >>, << 2, 1 >> }

InitLexical ==
    /\ InitBuildIdle
    /\ InitLogIdle
    /\ index_file \in SnapshotFiles
    /\ corpus = TableIds(LexMaxId)
    /\ query_tokens \in QueryTokenChoices
    /\ top_k \in TopKs
    /\ scores = << >>
    /\ pc = "bm25_start"
    /\ scored = << >>
    /\ filter_in = << >>
    /\ filter_name = "none"
    /\ filter_outcome = "no_query"
    /\ store_failed = FALSE
    /\ birth_years \in { None, << "1990", "1991" >> }
    /\ regions = None
    /\ genders = None
    /\ domain_filters = << >>
    /\ bm25_results_ids = << >>
    /\ vector_results_ids = << >>
    /\ \E ids \in VectorChoices : future_vector = Returned(ids, FALSE)
    /\ k = 60
    /\ rrf_sorted = << >>
    /\ result_count = 30
    /\ item_count = 150
    /\ top_panels = << >>
    /\ attempts = 0
    /\ llm_error = "none"
    /\ llm_ids = << >>
    /\ final_ids = << >>
    /\ answers = << >>

NextLexical ==
    \/ Bm25Retrieve
    \/ ApplyBirthYears
    \/ ApplyRegions
    \/ ApplyGender
    \/ Join
    \/ ApplyDomainFilters
    \/ RrfFusion

SpecLexical == InitLexical /\ [][NextLexical]_vars

\* ----------------------------------------------- specification: rebuild
\* An earlier run of build_index.py has saved the snapshot of the table; the
\* script is run again while a query is about to call bm25_search.
InitRebuild ==
    /\ InitBuildIdle
    /\ InitLogIdle
    /\ future_vector = Running
    /\ corpus \in { r \in SUBSET (1..BuildMaxId) : \E id \in r : DocTokens(id) # << >> }
    /\ index_file = BuiltSnapshot(corpus)
    /\ query_tokens \in QueryTokenChoices
    /\ top_k = 36000
    /\ scores = << >>
    /\ pc = "bm25_start"
    /\ scored = << >>
    /\ filter_in = << >>
    /\ filter_name = "none"
    /\ filter_outcome = "no_query"
    /\ store_failed = FALSE
    /\ birth_years = None
    /\ regions = None
    /\ genders = None
    /\ domain_filters = << >>
    /\ bm25_results_ids = << >>
    /\ vector_results_ids = << >>
    /\ k = 60
    /\ rrf_sorted = << >>
    /\ result_count = 30
    /\ item_count = 150
    /\ top_panels = << >>
    /\ attempts = 0
    /\ llm_error = "none"
    /\ llm_ids = << >>
    /\ final_ids = << >>
    /\ answers = << >>

NextRebuild ==
    \/ StartBuild
    \/ Connect
    \/ CountDocs
    \/ FetchPage
    \/ ConstructIndex
    \/ OpenIndexFile
    \/ DumpIndex
    \/ Bm25Retrieve

SpecRebuild == InitRebuild /\ [][NextRebuild]_vars

\* ------------------------------------------------ specification: fusion
Ks == { 1, 60 }
ScenarioLex == << 1, 3, 5, 2, 4 >>
ScenarioVec == << 2, 1, 4, 3, 5 >>

InitIdle ==
    /\ InitLexicalIdle
    /\ InitLogIdle
    /\ index_file = NoFile
    /\ corpus = TableIds(FilterMaxId)
    /\ InitBuildIdle
    /\ scored = << >>
    /\ filter_in = << >>
    /\ filter_name = "none"
    /\ filter_outcome = "no_query"
    /\ store_failed = FALSE
    /\ birth_years = None
    /\ regions = None
    /\ genders = None
    /\ domain_filters = << >>
    /\ rrf_sorted = << >>
    /\ top_panels = << >>
    /\ attempts = 0
    /\ llm_error = "none"
    /\ llm_ids = << >>
    /\ final_ids = << >>
    /\ answers = << >>

InitFuse ==
    /\ InitIdle
    /\ pc = "searched"
    /\ result_count = 30
    /\ item_count = 150
    /\ \/ /\ bm25_results_ids \in DistinctSeqs(FuseIds, FuseMaxLen)
          /\ vector_results_ids \in DistinctSeqs(FuseIds, FuseMaxLen)
          /\ k \in Ks
       \/ /\ bm25_results_ids = ScenarioLex
          /\ vector_results_ids = ScenarioVec
          /\ k = 60
    /\ future_vector = Returned(vector_results_ids, FALSE)

NextFuse == RrfFusion

SpecFuse == InitFuse /\ [][NextFuse]_vars

\* the same two lists fused repeatedly
NextFuseTwice ==
    \/ RrfFusion
    \/ FuseAgain

SpecFuseTwice == InitFuse /\ [][NextFuseTwice]_vars

\* ---------------------------------------------- specification: filters
\* bm25_search has scored the snapshot: `results` is any list of distinct ids
BirthYearChoices == { None, << "1990" >>, << "1990", "1991" >> }
RegionChoices == { None, << "Seoul", "Gyeonggi" >> }
GenderChoices == { None, << "M" >> }
DomainChoices == { << >>, << OttKey, DrinkKey >> }

InitFilter ==
    /\ InitLexicalIdle
    /\ InitLogIdle
    /\ future_vector = Returned(<< >>, FALSE)
    /\ index_file = NoFile
    /\ corpus = TableIds(FilterMaxId)
    /\ InitBuildIdle
    /\ pc = "bm25_scored"
    /\ scored \in DistinctSeqs(1..FilterMaxId, FilterMaxLen)
    /\ bm25_results_ids = scored
    /\ filter_in = << >>
    /\ filter_name = "none"
    /\ filter_outcome = "no_query"
    /\ store_failed = FALSE
    /\ birth_years \in BirthYearChoices
    /\ regions \in RegionChoices
    /\ genders \in GenderChoices
    /\ domain_filters \in DomainChoices
    /\ vector_results_ids = << >>
    /\ k = 60
    /\ result_count = 30
    /\ item_count = 150
    /\ rrf_sorted = << >>
    /\ top_panels = << >>
    /\ attempts = 0
    /\ llm_error = "none"
    /\ llm_ids = << >>
    /\ final_ids = << >>
    /\ answers = << >>

NextFilter ==
    \/ ApplyBirthYears
    \/ ApplyRegions
    \/ ApplyGender
    \/ Join
    \/ ApplyDomainFilters
    \/ ApplyDomainFiltersVector

SpecFilter == InitFilter /\ [][NextFilter]_vars

\* ------------------------------------------- specification: two branches
\* search_pipeline has submitted its two tasks: bm25_search has scored the
\* snapshot and goes through its filters while the vector task runs; the
\* main thread waits for both and applies the domain filters; the two lists
\* are then those that fusion takes (pc = "searched").
InitSearch ==
    /\ InitLexicalIdle
    /\ InitLogIdle
    /\ InitBuildIdle
    /\ index_file = NoFile
    /\ corpus = TableIds(SearchMaxId)
    /\ future_vector = Running
    /\ pc = "bm25_scored"
    /\ scored \in DistinctSeqs(1..SearchMaxId, SearchMaxLen)
    /\ bm25_results_ids = scored
    /\ filter_in = << >>
    /\ filter_name = "none"
    /\ filter_outcome = "no_query"
    /\ store_failed = FALSE
    /\ birth_years \in BirthYearChoices
    /\ regions \in RegionChoices
    /\ genders \in GenderChoices
    /\ domain_filters \in DomainChoices
    /\ vector_results_ids = << >>
    /\ k = 60
    /\ result_count = 30
    /\ item_count = 150
    /\ rrf_sorted = << >>
    /\ top_panels = << >>
    /\ attempts = 0
    /\ llm_error = "none"
    /\ llm_ids = << >>
    /\ final_ids = << >>
    /\ answers = << >>

NextSearch ==
    \/ ApplyBirthYears
    \/ ApplyRegions
    \/ ApplyGender
    \/ VectorSearch
    \/ Join
    \/ JoinRaises
    \/ ApplyDomainFilters
    \/ ApplyDomainFiltersVector

SpecSearch == InitSearch /\ [][NextSearch]_vars

\* --------------------------------------------- saving the log of a request
\* search_pipeline is a plain def behind @app.post (search.py 34-35), which
\* the server runs in a thread per request, so several requests can be in
\* lines 296-315 at once. The log of a request is named by the request; the
\* file holds the logs one after the other, the latest first.
LogUnchanged ==
    UNCHANGED << lexical_vars, index_file, corpus, build_vars, future_vector, pc,
                 scored, filter_in, filter_name, filter_outcome, store_failed,
                 birth_years, regions, genders, domain_filters,
                 bm25_results_ids, vector_results_ids, k, rrf_sorted,
                 result_count, item_count, top_panels, attempts, llm_error,
                 llm_ids, final_ids, answers >>

\* search.py 35-298: request q runs up to current_log = console_log.getvalue()
ReachLog(q) ==
    /\ log_pc[q] = "not_started"
    /\ log_pc' = [ log_pc EXCEPT ![q] = "saving" ]
    /\ UNCHANGED << log_file, existing_content >>
    /\ LogUnchanged

\* search.py 301-304: existing_content = f.read() if the file exists, else ""
ReadLog(q) ==
    /\ log_pc[q] = "saving"
    /\ existing_content' = [ existing_content EXCEPT ![q] = log_file ]
    /\ log_pc' = [ log_pc EXCEPT ![q] = "read" ]
    /\ UNCHANGED log_file
    /\ LogUnchanged

\* search.py 307: open(results_file, 'w') empties the file
OpenLog(q) ==
    /\ log_pc[q] = "read"
    /\ log_file' = << >>
    /\ log_pc' = [ log_pc EXCEPT ![q] = "opened" ]
    /\ UNCHANGED existing_content
    /\ LogUnchanged

\* search.py 308-310: current_log, then "\n" + existing_content, are written
\* from the start of the file when it is closed; what another request has
\* written beyond that length stays
WriteLog(q) ==
    /\ log_pc[q] = "opened"
    /\ LET written == << q >> \o existing_content[q]
       IN  log_file' = written \o SubSeq(log_file, Len(written) + 1, Len(log_file))
    /\ log_pc' = [ log_pc EXCEPT ![q] = "written" ]
    /\ UNCHANGED existing_content
    /\ LogUnchanged

\* the log of a request served before
EarlierLog == 0

InitLog ==
    /\ InitLexicalIdle
    /\ InitBuildIdle
    /\ index_file = NoFile
    /\ corpus = TableIds(FilterMaxId)
    /\ scored = << >>
    /\ filter_in = << >>
    /\ filter_name = "none"
    /\ filter_outcome = "no_query"
    /\ store_failed = FALSE
    /\ birth_years = None
    /\ regions = None
    /\ genders = None
    /\ domain_filters = << >>
    /\ rrf_sorted = << >>
    /\ top_panels = << >>
    /\ attempts = 0
    /\ llm_error = "none"
    /\ llm_ids = << >>
    /\ final_ids = << >>
    /\ answers = << >>
    /\ log_file \in { << >>, << EarlierLog >> }
    /\ log_pc = [ q \in LogQueries |-> "not_started" ]
    /\ existing_content = [ q \in LogQueries |-> << >> ]
    /\ future_vector = NotSubmitted
    /\ pc = "idle"
    /\ bm25_results_ids = << >>
    /\ vector_results_ids = << >>
    /\ k = 60
    /\ result_count = 30
    /\ item_count = 150

NextLog ==
    \E q \in LogQueries :
        \/ ReachLog(q)
        \/ ReadLog(q)
        \/ OpenLog(q)
        \/ WriteLog(q)

SpecLog == InitLog /\ [][NextLog]_vars

\* --------------------------------------------- specification: selector
\* The query has searched: the lexical list is any list of distinct ids, the
\* vector branch found nothing (so that the fused order is the lexical order).
\* result_count is whatever int() makes of the interpreter's answer
\* (sonnet_api.py 77), item.count any int of the request.
ResultCounts == { -1, 0, 1, 2, 3, 101 }
ItemCounts == { 2, 150 }

\* a lexical list long enough for a slate rrf_sorted[:-3] to hold a candidate
LongLex == << 1, 2, 3, 4 >>

InitSelect ==
    /\ InitIdle
    /\ pc = "searched"
    /\ vector_results_ids = << >>
    /\ k = 60
    /\ \/ /\ bm25_results_ids \in DistinctSeqs(Ids, MaxLen)
          /\ result_count \in ResultCounts
          /\ item_count \in ItemCounts
       \/ /\ bm25_results_ids = LongLex
          /\ result_count = -1
          /\ item_count = 150
    /\ future_vector = Returned(vector_results_ids, FALSE)

NextSelect ==
    \/ RrfFusion
    \/ TakeTopPanels
    \/ SkipLlm
    \/ LlmNoPanels
    \/ LlmAnswers
    \/ LlmOtherError
    \/ LlmRateLimited
    \/ Backfill
    \/ Respond

SpecSelect == InitSelect /\ [][NextSelect]_vars

\* ------------------------------------------------------- claims: fusion
UnionOfLists == Range(bm25_results_ids) \cup Range(vector_results_ids)

\* the rank the contract gives an id in a list of distinct ids
ContractRank(list, id) ==
    IF \E i \in DOMAIN list : list[i] = id
    THEN CHOOSE i \in DOMAIN list : list[i] = id
    ELSE Len(list) + 1

\* C1: after fusion there is exactly one fused candidate for every id of the
\* union of the two lists and none for any other id, and its score equals
\* 1/(k+rankA) + 1/(k+rankB), rank = 1-based position or len+1 when absent;
\* also when one or both lists are empty.
C1_FusionScores ==
    pc = "fused" =>
        /\ \A id \in UnionOfLists :
              Cardinality({ i \in DOMAIN rrf_sorted : rrf_sorted[i].id = id }) = 1
        /\ \A i \in DOMAIN rrf_sorted :
              LET c == rrf_sorted[i]
                  a == k + ContractRank(bm25_results_ids, c.id)
                  b == k + ContractRank(vector_results_ids, c.id)
              IN  /\ c.id \in UnionOfLists
                  /\ c.den > 0
                  /\ c.num * (a * b) = c.den * (a + b)

C1_Witness ==
    /\ pc = "fused"
    /\ Len(bm25_results_ids) = 1
    /\ Len(vector_results_ids) = 2
    /\ \E i \in DOMAIN rrf_sorted :
          /\ rrf_sorted[i].id \notin Range(bm25_results_ids)
          /\ rrf_sorted[i].id \in Range(vector_results_ids)
    /\ \E i \in DOMAIN rrf_sorted :
          /\ rrf_sorted[i].id \in Range(bm25_results_ids)
          /\ rrf_sorted[i].id \in Range(vector_results_ids)

\* C2: the fused list is ordered by fused score descending and candidates of
\* equal score are in ascending id order; for lexical [A,C,E,B,D], vector
\* [B,A,D,C,E] and k = 60 the fused order is A, B, C, D, E.
C2_TieBreakById ==
    pc = "fused" =>
        /\ \A i, j \in DOMAIN rrf_sorted :
              i < j => \/ ScoreLess(rrf_sorted[j], rrf_sorted[i])
                       \/ /\ ScoreEq(rrf_sorted[i], rrf_sorted[j])
                          /\ rrf_sorted[i].id < rrf_sorted[j].id
        /\ ( /\ bm25_results_ids = ScenarioLex
             /\ vector_results_ids = ScenarioVec
             /\ k = 60 ) => IdsOf(rrf_sorted) = << 1, 2, 3, 4, 5 >>

\* ----------------------------------------------------- claims: selector
SlateIds == IdsOf(top_panels)
Selected == pc \in { "selected", "done" }

\* position of an id of the slate in the slate
SlatePos(id) == CHOOSE i \in DOMAIN SlateIds : SlateIds[i] = id

\* C6: when requestedCount <= 100 and the reranker returns fewer than
\* requestedCount ids, the selector's list is the reranker's ids in their
\* order followed by the best slate candidates that are not among them, in
\* fused order, until it holds requestedCount ids or the slate is exhausted.
C6_Backfill ==
    ( /\ Selected
      /\ result_count <= NoRerankThreshold
      /\ Len(llm_ids) < result_count ) =>
        LET n == Len(llm_ids)
            added == SubSeq(final_ids, n + 1, Len(final_ids))
            left == (Range(SlateIds) \ Range(llm_ids)) \ Range(added)
        IN  /\ Len(final_ids) >= n
            /\ SubSeq(final_ids, 1, n) = llm_ids
            /\ IsSubseq(added, SlateIds)
            /\ Range(added) \cap Range(llm_ids) = {}
            /\ Len(final_ids) <= result_count
            /\ Len(final_ids) = result_count \/ left = {}
            /\ \A x \in left, y \in Range(added) : SlatePos(y) < SlatePos(x)

C6_Witness ==
    /\ pc = "selected"
    /\ result_count = 2
    /\ Len(top_panels) = 3
    /\ llm_ids = << top_panels[3].id >>
    /\ final_ids = << top_panels[3].id, top_panels[1].id >>

\* C7: when requestedCount > 100 the reranker is never invoked and the result
\* is the first requestedCount candidates of the fused ranking (all of them
\* when it has fewer), for every value of item.count.
C7_SkipReturnsTopRequested ==
    ( Selected /\ result_count > NoRerankThreshold ) =>
        /\ attempts = 0
        /\ final_ids = SubSeq(IdsOf(rrf_sorted), 1, Min(result_count, Len(rrf_sorted)))

\* the reranker was unavailable or erred
LlmFailed == llm_error \in { "other", "rate_limit" } /\ pc # "llm"

\* C8: if the reranker is unavailable or errs in any way, rate limiting until
\* the retries are exhausted included, the query does not fail: it returns
\* the top requestedCount candidates of the slate in fused order.
C8_RerankFailureDegrades ==
    LlmFailed =>
        /\ pc # "raised"
        /\ Selected =>
             final_ids = SubSeq(SlateIds, 1, Min(result_count, Len(SlateIds)))

\* C9: the ids of the response are in the selector's final order, and cutting
\* to requestedCount removes ids only from the tail of that order.
C9_ResponseInSelectorOrder ==
    pc = "done" =>
        /\ IsSubseq(answers, final_ids)
        /\ \A i, j \in DOMAIN final_ids :
              ( i < j /\ final_ids[j] \in Range(answers) /\ HasRow(final_ids[i]) )
                  => final_ids[i] \in Range(answers)

\* C10: the final result never contains the same id twice, whatever the
\* reranker returned (an answer that repeats an id included) and whatever
\* was backfilled.
C10_NoDuplicateInResult ==
    pc = "done" => IsDistinct(answers)

C10_Witness ==
    /\ pc = "done"
    /\ \E i, j \in DOMAIN llm_ids :
          i # j /\ llm_ids[i] = llm_ids[j] /\ llm_ids[i] \in Range(answers)
    /\ Len(final_ids) > Len(llm_ids)

\* ------------------------------------------------------ claims: filters
FilterReturned == filter_name # "none" /\ pc # "raised"

\* C3: every attribute filter is order-preserving: its output is a
\* subsequence of its input (regions {Seoul, Gyeonggi} over [P1=Seoul,
\* P2=Busan, P3=Gyeonggi] gives [P1, P3] in that order).
C3_FilterOrderPreserving ==
    FilterReturned =>
        /\ IsSubseq(bm25_results_ids, filter_in)
        /\ ( /\ filter_name = "filter_by_regions"
             /\ filter_in = << 1, 2, 3 >>
             /\ regions = << "Seoul", "Gyeonggi" >>
             /\ ~store_failed ) => bm25_results_ids = << 1, 3 >>

\* the value the store records for a panel's field, if any
Recorded(id, field) ==
    IF HasRow(id) /\ PanelRow(id)[field] \notin { Missing, JsonNull }
    THEN { PanelRow(id)[field] }
    ELSE {}

Passes(id, field, dim) == dim = None \/ Recorded(id, field) \cap Range(dim) # {}

\* C4: when the store does not fail, an id is in the output of the lexical
\* branch's filtering iff it is in the input and, for every specified
\* dimension, the panel's recorded value of the field is one of the
\* dimension's values; a panel lacking the field is removed, a dimension that
\* is None removes nothing.
C4_FilterSemantics ==
    ( pc = "bm25_returned" /\ ~store_failed ) =>
        Range(bm25_results_ids) =
            { id \in Range(scored) : /\ Passes(id, "birth", birth_years)
                                     /\ Passes(id, "region", regions)
                                     /\ Passes(id, "gender", genders) }

C4_Witness ==
    /\ pc = "bm25_returned"
    /\ ~store_failed
    /\ birth_years = << "1990", "1991" >>
    /\ regions = None
    /\ genders = << "M" >>
    /\ Range(scored) = { 1, 2, 3 }
    /\ Range(bm25_results_ids) = { 1 }

\* C5: if the store fails at any point of an attribute filter call (opening
\* the connection, executing the query, fetching the rows) the filter returns
\* its input unchanged and does not raise.
C5_FilterFailOpen ==
    filter_outcome \in { "connect_fails", "execute_fails", "fetch_fails" } =>
        /\ pc # "raised"
        /\ bm25_results_ids = filter_in

\* ----------------------------------------------------- claims: the selector
\* C11: when the fused ranking holds fewer candidates than result_count, a
\* query that has ended has answered, and its answer holds every fused
\* candidate, whatever the reranker did
C11_ShortPoolReturnsAll ==
    (pc \in { "done", "raised" } /\ Len(rrf_sorted) < result_count)
        => /\ pc = "done"
           /\ Range(IdsOf(rrf_sorted)) \subseteq Range(answers)

\* C12: the response never holds more than result_count panels (none at all
\* when result_count is not positive)
C12_AtMostRequested ==
    pc = "done" => Len(answers) <= Max(result_count, 0)

\* C13: the slate is the first poolSize fused candidates, poolSize being
\* min(result_count * 3, item.count), or the whole fused ranking when it holds
\* fewer than poolSize candidates (no candidate when poolSize is not positive)
C13_SlateIsPoolPrefix ==
    pc \notin { "searched", "fused" } =>
        LET poolSize == Min(result_count * 3, item_count)
        IN  IF Len(rrf_sorted) < poolSize
            THEN top_panels = rrf_sorted
            ELSE top_panels = SubSeq(rrf_sorted, 1, Max(poolSize, 0))

\* ------------------------------------------------------- claims: fusion
\* C14: fusing the same two lists with the same k once more yields the same
\* sequence of ids, candidates of equal score included
C14_FusionDeterministic ==
    [][(pc = "fused" /\ pc' = "fused") => IdsOf(rrf_sorted') = IdsOf(rrf_sorted)]_vars

\* x is in both lists, y in exactly one of them, at the rank that is the better
\* of x's two ranks
InBoth(x) == x.id \in Range(bm25_results_ids) /\ x.id \in Range(vector_results_ids)
InOne(y) == (y.id \in Range(bm25_results_ids)) # (y.id \in Range(vector_results_ids))
PresentRank(y) ==
    IF y.id \in Range(bm25_results_ids) THEN RankOf(bm25_results_ids, y.id)
    ELSE RankOf(vector_results_ids, y.id)
BestRank(x) == Min(RankOf(bm25_results_ids, x.id), RankOf(vector_results_ids, x.id))
WorstRank(x) == Max(RankOf(bm25_results_ids, x.id), RankOf(vector_results_ids, x.id))
\* the list y is absent from
AbsentList(y) ==
    IF y.id \in Range(bm25_results_ids) THEN vector_results_ids ELSE bm25_results_ids

Indexable == { id \in corpus : DocTokens(id) # << >> }

\* C19: whatever batch size of at least 1 a build pages with, once the pages
\* are read the document id list, the per-document token lists and the count of
\* excluded documents are those that the table alone determines
C19_BatchSizeIndependent ==
    (bpc \in { "paged", "built", "writing", "saved" } /\ batch_size >= 1)
        => /\ doc_ids = Ascending(Indexable)
           /\ tokenized_docs = [ i \in DOMAIN doc_ids |-> DocTokens(doc_ids[i]) ]
           /\ total_processed - Len(tokenized_docs) = Cardinality(corpus \ Indexable)

\* a build in several pages, the last one shorter, with a document excluded
C19_Witness ==
    /\ bpc = "saved"
    /\ batch_size = 2
    /\ total_docs = 3
    /\ total_processed - Len(tokenized_docs) = 1
    /\ Len(doc_ids) = 2

\* C20: a build that fails while connecting, counting, fetching a page or
\* constructing the index (which fails on an empty document list) has written
\* nothing: only the steps of save_index, which follow a successful build,
\* change the snapshot file, and no failed build has reached them
C20_FailedBuildWritesNothing ==
    [][ /\ bpc \notin { "built", "writing" } => index_file' = index_file
        /\ bpc' = "build_failed" => bpc \in { "connecting", "counting", "paging", "paged" }
        /\ bpc' = "built" => (bpc = "paged" /\ tokenized_docs # << >>)
        /\ bpc' = "writing" => bpc = "built" ]_vars

\* a build has failed and the snapshot persisted by an earlier run is there
C20_Witness ==
    /\ bpc = "build_failed"
    /\ index_file.kind = "snapshot"
    /\ total_docs > 0

\* ------------------------------------------------ claims: lexical retrieval
ScoreOfDoc(id) ==
    LET i == CHOOSE j \in DOMAIN scores : scores[j].id = id
    IN  scores[i].num

\* C16: before any filter, the ids that bm25_search has taken are in descending
\* order of score, documents of equal score in ascending id order, and there
\* are at most top_k of them
C16_ScoreOrderThenId ==
    scores # << >> =>
        /\ Len(scored) <= top_k
        /\ \A i, j \in DOMAIN scored :
              i < j => \/ ScoreOfDoc(scored[i]) > ScoreOfDoc(scored[j])
                       \/ /\ ScoreOfDoc(scored[i]) = ScoreOfDoc(scored[j])
                          /\ scored[i] < scored[j]

\* C17: every id bm25_search returns is a document of the snapshot that holds
\* at least one of the query tokens
C17_OnlyMatchingDocuments ==
    pc \in { "bm25_scored", "birth_done", "regions_done", "bm25_returned", "searched", "fused" } =>
        \A id \in Range(bm25_results_ids) :
            \E i \in DOMAIN index_file.doc_ids :
                /\ index_file.doc_ids[i] = id
                /\ SharesToken(index_file.docs[i], query_tokens)

\* the cases in which bm25_search has nothing to score
LexicalUnavailable == index_file.kind # "snapshot" \/ query_tokens = << >>

\* C18: with the snapshot file missing or unreadable, or a query without
\* tokens, bm25_search returns the empty list: nothing is raised, no filter is
\* called, and the fused ranking is the vector list
C18_LexicalRecoversLocally ==
    (LexicalUnavailable /\ pc # "bm25_start")
        => /\ pc # "raised"
           /\ bm25_results_ids = << >>
           /\ filter_name = "none"
           /\ store_failed = FALSE
           /\ pc = "fused" => IdsOf(rrf_sorted) = vector_results_ids

\* a query with an age filter, an unreadable snapshot file and a vector list
\* has been fused
C18_Witness ==
    /\ pc = "fused"
    /\ index_file.kind = "unreadable"
    /\ query_tokens # << >>
    /\ birth_years # None
    /\ vector_results_ids = << 2, 1 >>
    /\ IdsOf(rrf_sorted) = << 2, 1 >>

\* C27: every id of the response is a member of the slate handed to the
\* reranker: an id the reranker returns that is not in the slate never
\* reaches the response, with or without the <result> tag in its answer.
C27_ResponseWithinSlate ==
    pc = "done" => Range(answers) \subseteq Range(SlateIds)

\* C29: a call of llm_filter_panel makes at most 5 attempts; an attempt after
\* the first is made only when the attempt before it ended in a rate-limit
\* error; any other error ends the call at once with an empty result, and no
\* attempt follows it.
C29_RetryOnlyOnRateLimit ==
    /\ [](attempts <= 5)
    /\ [](llm_error = "other" => pc # "llm" /\ llm_ids = << >>)
    /\ [][ /\ (attempts' # attempts) => attempts' = attempts + 1
           /\ (attempts' # attempts /\ attempts >= 1) => llm_error = "rate_limit"
           /\ (llm_error = "other") => attempts' = attempts ]_vars

\* the fifth attempt, made after four rate-limit errors, ends in another error
C29_Witness ==
    /\ attempts = 5
    /\ llm_error = "other"
    /\ pc = "llm_returned"
    /\ llm_ids = << >>

\* the fields of a response that carry the query texts, the ids, the log text,
\* the time and the count
PayloadFields == { "original_query", "clean_query", "result", "console_log",
                   "metrics" }
MetricFields == { "total_time", "final_count" }

\* C23: whenever the response holds fewer ids than requestedCount, the
\* response marks the result as short: it has a field, of its own or among
\* its metrics, that is the shortfall indication.
C23_ShortfallMarked ==
    ( pc = "done" /\ Len(Response.result) < result_count ) =>
        \/ DOMAIN Response \ PayloadFields # { }
        \/ DOMAIN Response.metrics \ MetricFields # { }

\* ------------------------------------- claims: the build over a live table
\* the build has read its pages and constructed the index
BuildSucceeded == bpc \in { "built", "writing", "saved" }

\* the rows that are in the table from the start of a build to its end
Resident == corpus \ (1..ChurnMaxId)

Occurrences(seq, x) == Cardinality({ i \in DOMAIN seq : seq[i] = x })

\* C26: in every build, also one during which rows are inserted or deleted
\* between two page fetches, the document ids of the snapshot are unique and
\* every document of the corpus is processed exactly once: a row with tokens
\* that is in the table throughout the build is once in the id list.
C26_UniqueAndComplete ==
    BuildSucceeded =>
        /\ IsDistinct(doc_ids)
        /\ \A id \in Resident :
              DocTokens(id) # << >> => Occurrences(doc_ids, id) = 1

\* C25: after a successful build the id list holds the ids of the processed
\* documents that have tokens, in ascending id order, the token lists are at
\* the positions of their documents, and the excluded count is the number of
\* processed documents minus the number of indexed ones.
C25_IdListAscendingAligned ==
    BuildSucceeded =>
        /\ \A i, j \in DOMAIN doc_ids : i < j => doc_ids[i] < doc_ids[j]
        /\ \A i \in DOMAIN doc_ids : DocTokens(doc_ids[i]) # << >>
        /\ tokenized_docs = TokensOf(doc_ids)
        /\ total_processed - Len(tokenized_docs) >= 0

\* ------------------------------------------ claims: replacing the snapshot
\* C21: the persisted snapshot is replaced atomically: whenever a query loads
\* the file during a rebuild it finds a complete snapshot, the previous one or
\* the new one, and when persisting fails the file still holds a complete
\* snapshot.
C21_AtomicReplace ==
    [][ /\ (pc = "bm25_start" /\ pc' # "bm25_start") => index_file.kind = "snapshot"
        /\ bpc' = "save_failed" => index_file'.kind = "snapshot" ]_vars

\* ------------------------------------------------ claims: the two branches
\* C22: if one of the two retrieval branches fails, that branch contributes
\* an empty list and the query goes on with the list of the other branch
\* instead of aborting: when the vector task has raised, the join leaves the
\* lexical list as it is, takes an empty vector list and does not raise.
C22_BranchFailureDegrades ==
    [][ ( pc = "bm25_returned" /\ future_vector.state = "raised" ) =>
            /\ pc' = "joined"
            /\ vector_results_ids' = << >>
            /\ bm25_results_ids' = bm25_results_ids ]_vars

\* C24: fusion starts only after both tasks have finished, and each task's
\* list becomes its own rank map whichever task finished first: from the join
\* to the point where fusion takes the lists the vector task is done, the
\* join is made only once the lexical task has returned, and it gives
\* bm25_results_ids the list of the lexical task and vector_results_ids the
\* list of the vector task.
C24_JoinByTask ==
    /\ [](pc \in { "joined", "domain_bm25_done", "searched" }
            => future_vector.state = "done")
    /\ [][ pc' = "joined" => pc = "bm25_returned" ]_vars
    /\ [][ ( pc = "bm25_returned" /\ pc' = "joined" ) =>
               /\ bm25_results_ids' = bm25_results_ids
               /\ vector_results_ids' = future_vector.result ]_vars

\* the lists are ready for fusion, the vector task having finished first
\* with another list than the lexical task's
C24_Witness ==
    /\ pc = "searched"
    /\ ~future_vector.after_bm25
    /\ domain_filters = << >>
    /\ bm25_results_ids # << >>
    /\ vector_results_ids # << >>
    /\ vector_results_ids # bm25_results_ids
    /\ vector_results_ids = future_vector.result

\* an id meets every dimension that the query specifies
PassesAll(id) ==
    /\ Passes(id, "birth", birth_years)
    /\ Passes(id, "region", regions)
    /\ Passes(id, "gender", genders)
    /\ domain_filters # << >> =>
          \E i \in DOMAIN domain_filters :
              Recorded(id, domain_filters[i]) \ { "" } # {}

\* C28: when the store does not fail, every id of the two lists given to
\* fusion meets every filter dimension that the query specifies (birth years,
\* regions, genders, detected domain keys), and no retrieved id that meets
\* them all is missing: none of the ids bm25_search had taken, none of the
\* rows of the vector table.
C28_BothListsFiltered ==
    ( pc = "searched" /\ ~store_failed ) =>
        /\ \A id \in Range(bm25_results_ids) \cup Range(vector_results_ids) :
              PassesAll(id)
        /\ \A id \in Range(scored) : PassesAll(id) => id \in Range(bm25_results_ids)
        /\ \A id \in VecIds : PassesAll(id) => id \in Range(vector_results_ids)

\* every dimension specified; panel 1 meets them all, another id is removed
C28_Witness ==
    /\ pc = "searched"
    /\ ~store_failed
    /\ birth_years # None
    /\ regions # None
    /\ genders # None
    /\ domain_filters # << >>
    /\ Len(scored) = 2
    /\ bm25_results_ids = << 1 >>
    /\ vector_results_ids = << 1 >>

\* ------------------------------------------------- claims: the log file
\* C30: concurrent queries share no mutable state other than the snapshot:
\* once all of them have finished, search_results.log holds the log text of
\* every one of them, none lost or overwritten.
C30_EveryLogKept ==
    ( \A q \in LogQueries : log_pc[q] = "written" ) =>
        \A q \in LogQueries : Occurrences(log_file, q) = 1

====
